---- MODULE Spec2Model ----
(***************************************************************************)
(* Model of models.py: Network_Indexer (get_item, get_layer_index,         *)
(* indexable_call), the Powered_Sequential / Powered_Model wrappers that   *)
(* delegate to it, and DetectorNet.call.                                   *)
(*                                                                         *)
(* A layer is a record [id, name]; id is the identity of the layer object. *)
(* A tensor is the sequence <<x, id1, ..., idk>>: the input x followed by  *)
(* the ids of the layers applied to it, in order, so that layer            *)
(* application is a free (injective) symbol.  Positions are 0-based as in  *)
(* Python; layers[l] of the source is layers[l + 1] here.                  *)
(***************************************************************************)
EXTENDS Integers, Sequences, FiniteSets, TLC

VARIABLES layers, input_layers, predictors, op, result, calls, runs

vars == <<layers, input_layers, predictors, op, result, calls, runs>>

\* ------------------------------------------------------------------ bounds
MaxLen == 3
MaxBranches == 2

\* names the layers of a layer list can have, and a name no layer has
LayerNames == {"a", "b"}
GhostName == "ghost"

\* names of the input stages and of the predictors of a DetectorNet, which
\* are unique within the model
StageNames == <<"input_1", "input_2", "input_3", "input_4">>
PredictorNames == <<"pred_1", "pred_2", "pred_3", "pred_4">>

\* ------------------------------------------------------------ Python values
\* a key: None, an int, a str, or a value of another type (a float)
NoneKey == [t |-> "none", i |-> 0, s |-> ""]
IntKey(k) == [t |-> "int", i |-> k, s |-> ""]
StrKey(n) == [t |-> "str", i |-> 0, s |-> n]
OtherKey == [t |-> "other", i |-> 0, s |-> ""]
SliceKey(a, b) == [t |-> "slice", start |-> a, stop |-> b]

\* what a call returns or raises
NoneResult == [kind |-> "none", err |-> "", idx |-> 0, items |-> <<>>, tensor |-> <<>>, outs |-> <<>>]
Raise(e) == [NoneResult EXCEPT !.kind = "error", !.err = e]
IndexResult(p) == [NoneResult EXCEPT !.kind = "index", !.idx = p]
LayerResult(l) == [NoneResult EXCEPT !.kind = "layer", !.items = <<l>>]
ListResult(ls) == [NoneResult EXCEPT !.kind = "list", !.items = ls]
SequentialResult(ls) == [NoneResult EXCEPT !.kind = "sequential", !.items = ls]
TensorResult(t) == [NoneResult EXCEPT !.kind = "tensor", !.tensor = t]
OutputsResult(os) == [NoneResult EXCEPT !.kind = "outputs", !.outs = os]

\* layer(inputs): the tensor a layer produces
Apply(layer, t) == Append(t, layer.id)

\* Python list indexing ls[i]: negative i counts from the end
ListIndex(ls, i) ==
    IF i >= Len(ls) \/ i < -Len(ls) THEN Raise("IndexError")
    ELSE IF i < 0 THEN LayerResult(ls[Len(ls) + i + 1])
    ELSE LayerResult(ls[i + 1])

\* Python slice bound: None is the default, negatives count from the end,
\* the result is clamped to 0..len
SliceBound(n, b, default) ==
    IF b.t = "none" THEN default
    ELSE IF b.i < 0 THEN (IF n + b.i < 0 THEN 0 ELSE n + b.i)
    ELSE IF b.i > n THEN n ELSE b.i

\* Python list slicing ls[start:stop]
ListSlice(ls, start, stop) ==
    SubSeq(ls, SliceBound(Len(ls), start, 0) + 1, SliceBound(Len(ls), stop, Len(ls)))

\* ---------------------------------------------------------- Network_Indexer
RECURSIVE name_scan(_, _, _, _)
\* the for loop of get_layer_index over a str key: index is the last match
name_scan(ls, key, l, index) ==
    IF l >= Len(ls) THEN index
    ELSE name_scan(ls, key, l + 1, IF ls[l + 1].name = key THEN IntKey(l) ELSE index)

RECURSIVE name_scan_first(_, _, _, _)
name_scan_first(ls, key, l, index) ==
    IF l >= Len(ls) THEN index
    ELSE IF ls[l + 1].name = key THEN IntKey(l)
    ELSE name_scan_first(ls, key, l + 1, index)

\* get_layer_index with the str scan stopping at the first match
get_layer_index_first(ls, key) ==
    IF key.t = "int" THEN
        IF key.i >= Len(ls) THEN Raise("IndexError") ELSE IndexResult(key.i)
    ELSE IF key.t = "str" THEN
        LET index == name_scan_first(ls, key.s, 0, NoneKey)
        IN  IF index.t = "none" THEN Raise("ValueError") ELSE IndexResult(index.i)
    ELSE Raise("TypeError")

\* get_layer_index with a negative int key resolved to its absolute value
get_layer_index_abs(ls, key) ==
    IF key.t = "int" THEN
        IF key.i >= Len(ls) THEN Raise("IndexError")
        ELSE IndexResult(IF key.i < 0 THEN -key.i ELSE key.i)
    ELSE IF key.t = "str" THEN
        LET index == name_scan(ls, key.s, 0, NoneKey)
        IN  IF index.t = "none" THEN Raise("ValueError") ELSE IndexResult(index.i)
    ELSE Raise("TypeError")

\* get_layer_index(layers, key): the assignment index = len(layers) + key
\* of the negative branch is overwritten by index = key
get_layer_index(ls, key) ==
    IF key.t = "int" THEN
        IF key.i >= Len(ls) THEN Raise("IndexError")
        ELSE LET index1 == IF key.i < 0 THEN Len(ls) + key.i ELSE 0
                 index2 == key.i
             IN  IndexResult(index2)
    ELSE IF key.t = "str" THEN
        LET index == name_scan(ls, key.s, 0, NoneKey)
        IN  IF index.t = "none" THEN Raise("ValueError") ELSE IndexResult(index.i)
    ELSE Raise("TypeError")

\* get_item with a str stop used as resolved, without the + 1
get_item_exclusive(ls, key) ==
    IF key.t \in {"int", "str"} THEN
        LET r == get_layer_index(ls, key)
        IN  IF r.kind = "error" THEN r ELSE ListIndex(ls, r.idx)
    ELSE IF key.t = "slice" THEN
        LET rs == IF key.start.t = "str" THEN get_layer_index(ls, key.start) ELSE NoneResult
            rp == IF key.stop.t = "str" THEN get_layer_index(ls, key.stop) ELSE NoneResult
            start == IF key.start.t = "str" THEN IntKey(rs.idx) ELSE key.start
            stop == IF key.stop.t = "str" THEN IntKey(rp.idx) ELSE key.stop
            item == ListSlice(ls, start, stop)
        IN  IF rs.kind = "error" THEN rs
            ELSE IF rp.kind = "error" THEN rp
            ELSE IF Len(item) > 1 THEN SequentialResult(item) ELSE ListResult(item)
    ELSE Raise("IndexError")

\* get_item(layers, key)
get_item(ls, key) ==
    IF key.t \in {"int", "str"} THEN
        LET r == get_layer_index(ls, key)
        IN  IF r.kind = "error" THEN r ELSE ListIndex(ls, r.idx)
    ELSE IF key.t = "slice" THEN
        LET rs == IF key.start.t = "str" THEN get_layer_index(ls, key.start) ELSE NoneResult
            rp == IF key.stop.t = "str" THEN get_layer_index(ls, key.stop) ELSE NoneResult
            start == IF key.start.t = "str" THEN IntKey(rs.idx) ELSE key.start
            stop == IF key.stop.t = "str" THEN IntKey(rp.idx + 1) ELSE key.stop
            item == ListSlice(ls, start, stop)
        IN  IF rs.kind = "error" THEN rs
            ELSE IF rp.kind = "error" THEN rp
            ELSE IF Len(item) > 1 THEN SequentialResult(item) ELSE ListResult(item)
    ELSE Raise("IndexError")

RECURSIVE forward(_, _, _, _, _, _, _)
\* the for loop of indexable_call, from iteration l on
forward(ls, l, start, last, inputs, outputs, trace) ==
    IF l >= last + 1 THEN [res |-> outputs, trace |-> trace]
    ELSE IF l < start THEN forward(ls, l + 1, start, last, inputs, outputs, trace)
    ELSE LET out == Apply(ls[l + 1], inputs)
         IN  IF l = last THEN [res |-> TensorResult(out), trace |-> Append(trace, l)]
             ELSE forward(ls, l + 1, start, last, out, TensorResult(out), Append(trace, l))

RECURSIVE forward_noskip(_, _, _, _, _, _, _)
forward_noskip(ls, l, start, last, inputs, outputs, trace) ==
    IF l >= last + 1 THEN [res |-> outputs, trace |-> trace]
    ELSE LET out == Apply(ls[l + 1], inputs)
         IN  IF l = last THEN [res |-> TensorResult(out), trace |-> Append(trace, l)]
             ELSE forward_noskip(ls, l + 1, start, last, out, TensorResult(out), Append(trace, l))

RECURSIVE forward_nochain(_, _, _, _, _, _, _)
forward_nochain(ls, l, start, last, inputs, outputs, trace) ==
    IF l >= last + 1 THEN [res |-> outputs, trace |-> trace]
    ELSE IF l < start THEN forward_nochain(ls, l + 1, start, last, inputs, outputs, trace)
    ELSE LET out == Apply(ls[l + 1], inputs)
         IN  IF l = last THEN [res |-> TensorResult(out), trace |-> Append(trace, l)]
             ELSE forward_nochain(ls, l + 1, start, last, inputs, TensorResult(out), Append(trace, l))

\* indexable_call that runs the layers before start as well
indexable_call_noskip(ls, inputs, start_layer, last_layer) ==
    LET rs == IF start_layer.t # "none" THEN get_layer_index(ls, start_layer) ELSE IndexResult(0)
        rl == IF last_layer.t # "none" THEN get_layer_index(ls, last_layer) ELSE IndexResult(Len(ls) - 1)
    IN  IF rs.kind = "error" THEN [res |-> rs, trace |-> <<>>]
        ELSE IF rl.kind = "error" THEN [res |-> rl, trace |-> <<>>]
        ELSE forward_noskip(ls, 0, rs.idx, rl.idx, inputs, NoneResult, <<>>)

\* indexable_call that feeds every layer the caller's input
indexable_call_nochain(ls, inputs, start_layer, last_layer) ==
    LET rs == IF start_layer.t # "none" THEN get_layer_index(ls, start_layer) ELSE IndexResult(0)
        rl == IF last_layer.t # "none" THEN get_layer_index(ls, last_layer) ELSE IndexResult(Len(ls) - 1)
    IN  IF rs.kind = "error" THEN [res |-> rs, trace |-> <<>>]
        ELSE IF rl.kind = "error" THEN [res |-> rl, trace |-> <<>>]
        ELSE forward_nochain(ls, 0, rs.idx, rl.idx, inputs, NoneResult, <<>>)

\* indexable_call whose default last layer is one short of the end
indexable_call_shortdefault(ls, inputs, start_layer, last_layer) ==
    LET rs == IF start_layer.t # "none" THEN get_layer_index(ls, start_layer) ELSE IndexResult(0)
        rl == IF last_layer.t # "none" THEN get_layer_index(ls, last_layer) ELSE IndexResult(Len(ls) - 2)
    IN  IF rs.kind = "error" THEN [res |-> rs, trace |-> <<>>]
        ELSE IF rl.kind = "error" THEN [res |-> rl, trace |-> <<>>]
        ELSE forward(ls, 0, rs.idx, rl.idx, inputs, NoneResult, <<>>)

\* indexable_call(layers, inputs, start_layer, last_layer): what it returns
\* or raises (res) and the positions of the layers it invoked (trace)
indexable_call(ls, inputs, start_layer, last_layer) ==
    LET rs == IF start_layer.t # "none" THEN get_layer_index(ls, start_layer) ELSE IndexResult(0)
        rl == IF last_layer.t # "none" THEN get_layer_index(ls, last_layer) ELSE IndexResult(Len(ls) - 1)
    IN  IF rs.kind = "error" THEN [res |-> rs, trace |-> <<>>]
        ELSE IF rl.kind = "error" THEN [res |-> rl, trace |-> <<>>]
        ELSE forward(ls, 0, rs.idx, rl.idx, inputs, NoneResult, <<>>)

\* ------------------------------------- Powered_Sequential, Powered_Model
\* __getitem__(key) of both classes
getitem(key) == get_item(layers, key)

\* call(inputs, start_layer, last_layer) of both classes
call(inputs, start_layer, last_layer) == indexable_call(layers, inputs, start_layer, last_layer)

\* ------------------------------------------------------------- DetectorNet
\* the layer list (self.layers) of a DetectorNet: its input stages, then its
\* predictors, the order in which the functional Model built by __init__
\* lists them and on which the offset i + len(input_layers) of call relies
DetectorLayers(ins, preds) == ins \o preds

RECURSIVE detector_loop_first(_, _, _, _, _, _)
detector_loop_first(inputs, i, n, outputs, trace, rs) ==
    IF i >= n THEN [res |-> OutputsResult(outputs), trace |-> trace, runs |-> rs]
    ELSE LET stage == ListIndex(layers, i)
             in_predict == Apply(stage.items[1], inputs[i + 1])
             out_layer == Len(input_layers)
             r == call(in_predict, IntKey(out_layer), IntKey(out_layer))
         IN  IF stage.kind = "error" THEN [res |-> stage, trace |-> trace, runs |-> rs]
             ELSE IF r.res.kind = "error"
                  THEN [res |-> r.res, trace |-> Append(trace, i), runs |-> rs]
             ELSE detector_loop_first(inputs, i + 1, n, Append(outputs, r.res),
                                      Append(trace, i) \o r.trace, Append(rs, r.trace))

\* DetectorNet.call that sends every branch to the first predictor
DetectorNet_call_first(inputs) == detector_loop_first(inputs, 0, Len(inputs), <<>>, <<>>, <<>>)

RECURSIVE detector_loop(_, _, _, _, _, _)
\* the for loop of DetectorNet.call, from branch i on
detector_loop(inputs, i, n, outputs, trace, rs) ==
    IF i >= n THEN [res |-> OutputsResult(outputs), trace |-> trace, runs |-> rs]
    ELSE LET stage == ListIndex(layers, i)
             in_predict == Apply(stage.items[1], inputs[i + 1])
             out_layer == i + Len(input_layers)
             r == call(in_predict, IntKey(out_layer), IntKey(out_layer))
         IN  IF stage.kind = "error" THEN [res |-> stage, trace |-> trace, runs |-> rs]
             ELSE IF r.res.kind = "error"
                  THEN [res |-> r.res, trace |-> Append(trace, i), runs |-> rs]
             ELSE detector_loop(inputs, i + 1, n, Append(outputs, r.res),
                                Append(trace, i) \o r.trace, Append(rs, r.trace))

\* DetectorNet.call(inputs)
DetectorNet_call(inputs) == detector_loop(inputs, 0, Len(inputs), <<>>, <<>>, <<>>)

\* ------------------------------------------------------------ state machine
\* the layer lists of length n whose layers are named from LayerNames, the
\* layer at position p (0-based) being the object of id first + p
LayerLists(n, first) ==
    { [p \in 1..n |-> [id |-> first + p - 1, name |-> f[p]]] : f \in [1..n -> LayerNames] }

\* the input tensor number j of a call
InputTensor(j) == <<-j>>

\* the layers of a DetectorNet of n branches, ids counted from first
NamedLayers(n, first, names) == [p \in 1..n |-> [id |-> first + p - 1, name |-> names[p]]]

\* the keys a caller passes: None, ints around the valid range, names, a float
IntKeys == { IntKey(k) : k \in -(Len(layers) + 1)..(Len(layers) + 1) }
KeyNames == { layers[p].name : p \in 1..Len(layers) } \cup LayerNames \cup {GhostName}
StrKeys == { StrKey(n) : n \in KeyNames }
ItemKeys == IntKeys \cup StrKeys \cup {OtherKey}
BoundKeys == IntKeys \cup StrKeys \cup {NoneKey}
CallKeys == IntKeys \cup StrKeys \cup {NoneKey, OtherKey}

Operation(name, k1, k2, nin) == [name |-> name, k1 |-> k1, k2 |-> k2, nin |-> nin]

IsDetector == Len(input_layers) > 0

\* a Powered_Sequential over any layer list, or a DetectorNet over equally
\* many input stages and predictors
Init ==
    /\ \/ /\ input_layers = <<>>
          /\ predictors = <<>>
          /\ \E n \in 0..MaxLen : layers \in LayerLists(n, 1)
       \/ \E n \in 1..MaxBranches :
             /\ input_layers = NamedLayers(n, 1, StageNames)
             /\ predictors = NamedLayers(n, n + 1, PredictorNames)
             /\ layers = DetectorLayers(input_layers, predictors)
    /\ op = Operation("new", NoneKey, NoneKey, 0)
    /\ result = NoneResult
    /\ calls = <<>>
    /\ runs = <<>>

GetLayerIndex ==
    \E key \in ItemKeys :
        /\ op' = Operation("get_layer_index", key, NoneKey, 0)
        /\ result' = get_layer_index(layers, key)
        /\ calls' = <<>>
        /\ runs' = <<>>
        /\ UNCHANGED <<layers, input_layers, predictors>>

GetItem ==
    \E key \in ItemKeys :
        /\ op' = Operation("get_item", key, NoneKey, 0)
        /\ result' = getitem(key)
        /\ calls' = <<>>
        /\ runs' = <<>>
        /\ UNCHANGED <<layers, input_layers, predictors>>

GetSlice ==
    \E start \in BoundKeys, stop \in BoundKeys :
        /\ op' = Operation("get_slice", start, stop, 0)
        /\ result' = getitem(SliceKey(start, stop))
        /\ calls' = <<>>
        /\ runs' = <<>>
        /\ UNCHANGED <<layers, input_layers, predictors>>

Call ==
    /\ ~IsDetector
    /\ \E start_layer \in CallKeys, last_layer \in CallKeys :
        LET r == call(InputTensor(0), start_layer, last_layer)
        IN  /\ op' = Operation("call", start_layer, last_layer, 1)
            /\ result' = r.res
            /\ calls' = r.trace
            /\ runs' = IF r.res.kind = "error" THEN <<>> ELSE <<r.trace>>
            /\ UNCHANGED <<layers, input_layers, predictors>>

DetectorCall ==
    /\ IsDetector
    /\ \E m \in 0..(Len(input_layers) + 1) :
        LET r == DetectorNet_call([j \in 1..m |-> InputTensor(j)])
        IN  /\ op' = Operation("detector_call", NoneKey, NoneKey, m)
            /\ result' = r.res
            /\ calls' = r.trace
            /\ runs' = r.runs
            /\ UNCHANGED <<layers, input_layers, predictors>>

Next == GetLayerIndex \/ GetItem \/ GetSlice \/ Call \/ DetectorCall

Spec == Init /\ [][Next]_vars

\* ------------------------------------------------------------- properties
\* the positions (0-based) of the layers named n
PositionsOf(n) == { p \in 0..(Len(layers) - 1) : layers[p + 1].name = n }

UniqueNames ==
    \A p, q \in 1..Len(layers) : layers[p].name = layers[q].name => p = q

\* an int key that is a position of the layer list
ValidPosition(k) == k.t = "int" /\ 0 <= k.i /\ k.i < Len(layers)

\* a key that stands for a position, and the position it stands for
Resolvable(k) == k.t = "none" \/ ValidPosition(k) \/ (k.t = "str" /\ PositionsOf(k.s) # {})
Resolved(k, default) ==
    IF k.t = "none" THEN default
    ELSE IF k.t = "int" THEN k.i
    ELSE CHOOSE p \in PositionsOf(k.s) : \A q \in PositionsOf(k.s) : q <= p

\* the positions from..to in ascending order
Ascending(from, to) == [j \in 1..(to - from + 1) |-> from + j - 1]

\* S[to](...S[from + 1](S[from](x))...)
Chain(x, from, to) == x \o [j \in 1..(to - from + 1) |-> layers[from + j].id]

\* C1: call(x, startKey=k1, lastKey=k2) with valid positions k1 <= k2 invokes
\* no layer at a position < k1 or > k2.
C1_NoLayerOutsideRange ==
    (op.name = "call" /\ ValidPosition(op.k1) /\ ValidPosition(op.k2) /\ op.k1.i <= op.k2.i)
        => \A j \in 1..Len(calls) : op.k1.i <= calls[j] /\ calls[j] <= op.k2.i

C1_Witness ==
    /\ op.name = "call" /\ ValidPosition(op.k1) /\ ValidPosition(op.k2)
    /\ 0 < op.k1.i /\ op.k1.i <= op.k2.i /\ op.k2.i < Len(layers) - 1
    /\ calls # <<>>

\* C2: on a non-empty layer list, call(x) with no start and no end returns
\* the same output and invokes the same layers in the same order as
\* call(x, startKey=0, lastKey=len-1).
C2_DefaultsAreFullRange ==
    (/\ op.name = "call"
     /\ Len(layers) > 0
     /\ \/ op.k1.t = "none" /\ op.k2.t = "none"
        \/ op.k1 = IntKey(0) /\ op.k2 = IntKey(Len(layers) - 1))
        => LET d == call(InputTensor(0), NoneKey, NoneKey)
               f == call(InputTensor(0), IntKey(0), IntKey(Len(layers) - 1))
           IN  /\ result.kind = "tensor"
               /\ result = d.res /\ calls = d.trace
               /\ result = f.res /\ calls = f.trace

C2_Witness ==
    /\ op.name = "call" /\ op.k1.t = "none" /\ op.k2.t = "none"
    /\ Len(layers) >= 2 /\ result.kind = "tensor" /\ Len(calls) = Len(layers)

\* C3: a DetectorNet of n branches called on n inputs returns n outputs in
\* branch order, outputs[i] = p_i(s_i(x_i)), and the partial execution of
\* branch i invokes only the predictor at position n + i.
C3_BranchOutputs ==
    (op.name = "detector_call" /\ op.nin = Len(input_layers))
        => /\ result.kind = "outputs"
           /\ Len(result.outs) = Len(input_layers)
           /\ Len(runs) = Len(input_layers)
           /\ \A i \in 1..Len(input_layers) :
                /\ result.outs[i] =
                     TensorResult(<<-i, input_layers[i].id, predictors[i].id>>)
                /\ runs[i] = <<Len(input_layers) + i - 1>>

C3_Witness ==
    /\ op.name = "detector_call" /\ op.nin = Len(input_layers)
    /\ Len(input_layers) >= 2 /\ result.kind = "outputs" /\ Len(runs) >= 2

\* C4: for 0 <= i < len, item(i) and item(-(len - i)) return the same layer.
C4_NegativeIndexEquivalence ==
    /\ (op.name = "get_item" /\ ValidPosition(op.k1))
          => /\ result = LayerResult(layers[op.k1.i + 1])
             /\ result = getitem(IntKey(-(Len(layers) - op.k1.i)))
    /\ (op.name = "get_item" /\ op.k1.t = "int" /\ -Len(layers) <= op.k1.i /\ op.k1.i < 0)
          => /\ result.kind = "layer"
             /\ result = getitem(IntKey(Len(layers) + op.k1.i))

C4_Witness ==
    /\ op.name = "get_item" /\ op.k1.t = "int" /\ -Len(layers) < op.k1.i /\ op.k1.i < -1
    /\ result.kind = "layer"

\* C5: when the resolved boundaries of a partial execution satisfy
\* start > last, the call fails: no layer is invoked and nothing is returned.
C5_InvalidRangeRejected ==
    (/\ op.name = "call" /\ Resolvable(op.k1) /\ Resolvable(op.k2)
     /\ Resolved(op.k1, 0) > Resolved(op.k2, Len(layers) - 1))
        => result.kind = "error" /\ calls = <<>>

\* C6: get_layer_index on an int key k and a list of length n fails exactly
\* when k >= n or k < -n, and otherwise returns k when k >= 0 and n + k when
\* k < 0, a position in 0..n-1.
C6_IntKeyResolution ==
    (op.name = "get_layer_index" /\ op.k1.t = "int")
        => IF op.k1.i >= Len(layers) \/ op.k1.i < -Len(layers)
           THEN result.kind = "error"
           ELSE /\ result = IndexResult(IF op.k1.i >= 0 THEN op.k1.i ELSE Len(layers) + op.k1.i)
                /\ 0 <= result.idx /\ result.idx < Len(layers)

\* C7: with unique names, A at position a and B at position b >= a, the name
\* range item[A:B] selects the layers at positions a..b, B included, the
\* same as the integer slice item[a:b+1].
C7_NameRangeInclusive ==
    (op.name = "get_slice" /\ op.k1.t = "str" /\ op.k2.t = "str" /\ UniqueNames)
        => \A a \in PositionsOf(op.k1.s), b \in PositionsOf(op.k2.s) :
              a <= b => /\ result.kind \in {"list", "sequential"}
                        /\ result.items = SubSeq(layers, a + 1, b + 1)
                        /\ result = getitem(SliceKey(IntKey(a), IntKey(b + 1)))

C7_Witness ==
    /\ op.name = "get_slice" /\ op.k1.t = "str" /\ op.k2.t = "str" /\ UniqueNames
    /\ \E a \in PositionsOf(op.k1.s), b \in PositionsOf(op.k2.s) :
          0 < a /\ a < b /\ b < Len(layers) - 1 /\ Len(result.items) = b - a + 1

\* C8: get_layer_index on a str key fails with ValueError exactly when no
\* layer has that name; otherwise it returns the largest position of a
\* layer of that name, position 0 included.
C8_NameResolution ==
    (op.name = "get_layer_index" /\ op.k1.t = "str")
        => IF PositionsOf(op.k1.s) = {}
           THEN result = Raise("ValueError")
           ELSE /\ result.kind = "index"
                /\ result.idx \in PositionsOf(op.k1.s)
                /\ \A p \in PositionsOf(op.k1.s) : p <= result.idx

C8_Witness ==
    /\ op.name = "get_layer_index" /\ op.k1.t = "str"
    /\ Cardinality(PositionsOf(op.k1.s)) >= 2
    /\ result.kind = "index" /\ result.idx > 0

\* C9: item(slice) returns a composite sequential unit when the selected
\* sub-sequence has more than one element and the bare layer when it has
\* exactly one.
C9_SliceResultShape ==
    (op.name = "get_slice" /\ result.kind # "error")
        => /\ Len(result.items) > 1 => result.kind = "sequential"
           /\ Len(result.items) = 1 => result.kind = "layer"

\* C10: for resolved positions 0 <= start <= last < len, the partial
\* execution invokes the layers start..last once each in ascending order,
\* each fed the output of the one before, and returns the output of the
\* layer at last.
C10_ChainThroughLast ==
    (/\ op.name = "call" /\ Resolvable(op.k1) /\ Resolvable(op.k2)
     /\ 0 <= Resolved(op.k1, 0)
     /\ Resolved(op.k1, 0) <= Resolved(op.k2, Len(layers) - 1)
     /\ Resolved(op.k2, Len(layers) - 1) < Len(layers))
        => LET start == Resolved(op.k1, 0)
               last == Resolved(op.k2, Len(layers) - 1)
           IN  /\ calls = Ascending(start, last)
               /\ result = TensorResult(Chain(InputTensor(0), start, last))

C10_Witness ==
    /\ op.name = "call" /\ ValidPosition(op.k1) /\ ValidPosition(op.k2)
    /\ 0 < op.k1.i /\ op.k1.i < op.k2.i
    /\ result.kind = "tensor" /\ Len(result.tensor) = op.k2.i - op.k1.i + 2

====
